---------------------------- MODULE Spec2Model ----------------------------
(***************************************************************************)
(* Admission validation of prefect.server.schemas.actions:                 *)
(*   - validate_base_job_template: the placeholders of a work pool's job   *)
(*     configuration against the properties of its variables schema;       *)
(*   - DeploymentCreate / DeploymentUpdate .check_valid_configuration: the *)
(*     infra overrides against the variables schema, with the              *)
(*     required-with-default relaxation made on a deep copy;               *)
(*   - DeploymentCreate.populate_schedules: the migration of the legacy    *)
(*     schedule fields into `schedules`;                                   *)
(*   - DeploymentCreate's validation of `parameters` against               *)
(*     `parameter_openapi_schema`;                                         *)
(*   - the set_name validators of the run actions and the defaulting of    *)
(*     StateCreate's name and scheduled time.                              *)
(* Text is modelled character by character (a string is a sequence of      *)
(* one-character strings), documents as tagged records, Python dicts as    *)
(* sequences of <<key, value>> pairs in insertion order.                   *)
(***************************************************************************)
EXTENDS Integers, Sequences, FiniteSets, Bags, TLC

VARIABLES
    base_job_template,  \* the work pool's base job template (one shared object)
    wp_result,          \* what the work pool action's validation made of it
    original,           \* base_job_template as it was before any call
    calls,              \* the check_valid_configuration calls in progress (a bag)
    last_call,          \* the check_valid_configuration call that ended last
    payload,            \* the raw deployment payload
    deployment,         \* the validated deployment action object
    previous,           \* the action object before its latest validation
    runs,               \* number of validations applied to the payload
    create_request,     \* a DeploymentCreate request: its parameter fields
    create_result,      \* what validation made of create_request
    run_request,        \* a request of a run action: its name field
    run_result,         \* the run action that validated it, and the name it got
    state_request,      \* a StateCreate request
    state_result        \* the validated StateCreate

tvars == <<base_job_template, wp_result>>
ovars == <<original, calls, last_call>>
svars == <<payload, deployment, previous, runs>>
pvars == <<create_request, create_result>>
nvars == <<run_request, run_result>>
stvars == <<state_request, state_result>>
avars == <<create_request, create_result, run_request, run_result,
           state_request, state_result>>
vars == <<base_job_template, wp_result, original, calls, last_call,
          payload, deployment, previous, runs,
          create_request, create_result, run_request, run_result,
          state_request, state_result>>

---------------------------------------------------------------------------
(* Bounds of the model.                                                    *)

\* most top-level entries of a job configuration
MaxEntries == 2
\* most check_valid_configuration calls in progress at once
MaxCalls == 2
\* longest incoming `schedules` list
MaxSchedules == 2
\* most validations applied to one deployment payload
MaxRuns == 3

---------------------------------------------------------------------------
(* Characters and text.                                                    *)

QT == "\""
BS == "\\"
NL == "\n"
TAB == "\t"
SP == " "
LB == "{"
RB == "}"

Letters == {"a", "b", "c", "d", "e", "f", "g", "h", "i", "j", "k", "l", "m",
            "n", "o", "p", "q", "r", "s", "t", "u", "v", "w", "x", "y", "z"}
Digits == {"0", "1", "2", "3", "4", "5", "6", "7", "8", "9"}

\* Python's \s restricted to the model's alphabet
WhiteSpace == {SP, NL, TAB}
\* the class [\w\.\-\[\]$] restricted to the model's alphabet
NameChars == Letters \cup Digits \cup {"_", ".", "-", "[", "]", "$"}

\* the model's alphabet in code point order (the order of Python's str.__lt__)
CodePointOrder ==
    <<TAB, NL, SP, QT, "$", ",", "-", ".",
      "0", "1", "2", "3", "4", "5", "6", "7", "8", "9", ":",
      "[", BS, "]", "_",
      "a", "b", "c", "d", "e", "f", "g", "h", "i", "j", "k", "l", "m",
      "n", "o", "p", "q", "r", "s", "t", "u", "v", "w", "x", "y", "z",
      LB, RB>>

Rank(c) == CHOOSE i \in 1..Len(CodePointOrder) : CodePointOrder[i] = c

RECURSIVE StrLess(_, _)
StrLess(s, u) ==
    IF u = <<>> THEN FALSE
    ELSE IF s = <<>> THEN TRUE
    ELSE IF Head(s) = Head(u) THEN StrLess(Tail(s), Tail(u))
    ELSE Rank(Head(s)) < Rank(Head(u))

\* the names used as variables
NameA == <<"a">>
NameB == <<"b">>
NameX == <<"x">>
NameImage == <<"i", "m", "a", "g", "e">>

---------------------------------------------------------------------------
(* JSON documents: [t |-> tag, v |-> content].                             *)
(*   "str":  v the characters;   "num": v the digits;                      *)
(*   "list": v the elements;     "map": v the <<key, value>> pairs;        *)
(*   "none": Python's None (an absent key read with dict.get).             *)

Str(s) == [t |-> "str", v |-> s]
Num(digits) == [t |-> "num", v |-> digits]
List(elems) == [t |-> "list", v |-> elems]
Map(items) == [t |-> "map", v |-> items]
None == [t |-> "none", v |-> <<>>]

\* json.dumps of one character of a str (ensure_ascii, the model's alphabet)
EscapeChar(c) ==
    CASE c = QT -> <<BS, QT>>
      [] c = BS -> <<BS, BS>>
      [] c = NL -> <<BS, "n">>
      [] c = TAB -> <<BS, "t">>
      [] OTHER -> <<c>>

RECURSIVE EscapeStr(_)
EscapeStr(s) ==
    IF s = <<>> THEN <<>> ELSE EscapeChar(Head(s)) \o EscapeStr(Tail(s))

RECURSIVE JsonDumps(_), JoinElems(_), JoinItems(_)
\* json.dumps(template) with the default separators ", " and ": "
JsonDumps(d) ==
    CASE d.t = "str" -> <<QT>> \o EscapeStr(d.v) \o <<QT>>
      [] d.t = "num" -> d.v
      [] d.t = "none" -> <<"n", "u", "l", "l">>
      [] d.t = "list" -> <<"[">> \o JoinElems(d.v) \o <<"]">>
      [] d.t = "map" -> <<LB>> \o JoinItems(d.v) \o <<RB>>

JoinElems(elems) ==
    IF elems = <<>> THEN <<>>
    ELSE IF Len(elems) = 1 THEN JsonDumps(elems[1])
    ELSE JsonDumps(elems[1]) \o <<",", SP>> \o JoinElems(Tail(elems))

JoinItems(items) ==
    IF items = <<>> THEN <<>>
    ELSE LET one == <<QT>> \o EscapeStr(items[1][1]) \o <<QT, ":", SP>>
                    \o JsonDumps(items[1][2])
         IN IF Len(items) = 1 THEN one
            ELSE one \o <<",", SP>> \o JoinItems(Tail(items))

---------------------------------------------------------------------------
(* prefect.utilities.templating.find_placeholders on a str: every match of *)
(* {{ <name> }}, the name trimmed of the whitespace around it.             *)

\* first index >= i of text whose character is not in `class` (Len + 1 if none)
RECURSIVE SkipWhile(_, _, _)
SkipWhile(text, i, class) ==
    IF i <= Len(text) /\ text[i] \in class
    THEN SkipWhile(text, i + 1, class)
    ELSE i

\* the placeholder token starting at index i of text, if any:
\* "{{", whitespace, one or more name characters, whitespace, "}}"
TokenAt(text, i, ws) ==
    LET n == Len(text)
        nameFrom == SkipWhile(text, i + 2, ws)
        nameTo == SkipWhile(text, nameFrom, NameChars)
        close == SkipWhile(text, nameTo, ws)
        found == /\ i + 1 <= n /\ text[i] = LB /\ text[i + 1] = LB
                 /\ nameTo > nameFrom
                 /\ close + 1 <= n /\ text[close] = RB /\ text[close + 1] = RB
    IN [found |-> found,
        full_match |-> IF found THEN SubSeq(text, i, close + 1) ELSE <<>>,
        name |-> IF found THEN SubSeq(text, nameFrom, nameTo - 1) ELSE <<>>]

Tokens(text, ws) ==
    {[full_match |-> TokenAt(text, i, ws).full_match,
      name |-> TokenAt(text, i, ws).name] :
        i \in {j \in 1..Len(text) : TokenAt(text, j, ws).found}}

find_placeholders(text) == Tokens(text, WhiteSpace)


---------------------------------------------------------------------------
(* Variables schemas and base job templates.                               *)
(* A schema fragment is [type, has_default]; `properties` and `required`   *)
(* are [present, items]: a key of the dict that may be missing.            *)

Fragment(type, has_default) == [type |-> type, has_default |-> has_default]
Absent == [present |-> FALSE, items |-> <<>>]
Present(items) == [present |-> TRUE, items |-> items]

Schema(type, properties, required) ==
    [t |-> "map", type |-> type, properties |-> properties, required |-> required]
\* dict.get("variables") of a template without that key
NoVariables == [t |-> "none", type |-> "unset", properties |-> Absent, required |-> Absent]
\* the empty dict {}
EmptyDict == Schema("unset", Absent, Absent)

BaseJobTemplate(job_configuration, variables, other_keys) ==
    [job_configuration |-> job_configuration, variables |-> variables,
     other_keys |-> other_keys]

\* Python truth value of a dict or None
Truthy(d) ==
    /\ d.t = "map"
    /\ IF "properties" \in DOMAIN d
       THEN d.type # "unset" \/ d.properties.present \/ d.required.present
       ELSE d.v # <<>>

Keys(items) == {items[i][1] : i \in 1..Len(items)}
Range(seq) == {seq[i] : i \in 1..Len(seq)}

\* every order in which iterating a Python set of these names can yield them
IterationOrders(S) ==
    {f \in [1..Cardinality(S) -> S] : \A i, j \in 1..Cardinality(S) : f[i] = f[j] => i = j}

\* the `for template in job_config.values()` loop that fills template_variables
RECURSIVE TemplateVariables(_, _)
TemplateVariables(items, template_variables) ==
    IF items = <<>> THEN template_variables
    ELSE LET found_variables == find_placeholders(JsonDumps(items[1][2]))
         IN TemplateVariables(Tail(items),
                template_variables \cup {p.name : p \in found_variables})

Outcome(ok, error, missing_variables) ==
    [ok |-> ok, error |-> error, missing_variables |-> missing_variables]

\* a validator that looks for undeclared placeholders before it checks the shape
CheckPlaceholdersFirst(v) ==
    LET job_config == v.job_configuration
        variables == v.variables
        template_variables ==
            IF job_config.t = "map" THEN TemplateVariables(job_config.v, {}) ELSE {}
        provided_variables ==
            IF variables.properties.present THEN Keys(variables.properties.items) ELSE {}
        missing_variables == template_variables \ provided_variables
    IN IF missing_variables # {}
       THEN {Outcome(FALSE, "ValueError: undeclared variable(s)", order) :
                order \in IterationOrders(missing_variables)}
       ELSE IF ~(Truthy(job_config) /\ Truthy(variables))
       THEN {Outcome(FALSE, "ValueError: must contain both keys", <<>>)}
       ELSE {Outcome(TRUE, "none", <<>>)}

\* validate_base_job_template below its `if v == dict(): return v`: the outcomes
\* a call can have.  The message of the undeclared-variable error joins a Python
\* set, whose iteration order is not fixed: one outcome per order.
CheckTemplateVariables(v) ==
    LET job_config == v.job_configuration
        variables == v.variables
    IN IF ~(Truthy(job_config) /\ Truthy(variables))
       THEN {Outcome(FALSE, "ValueError: must contain both keys", <<>>)}
       ELSE LET template_variables == TemplateVariables(job_config.v, {})
            IN IF ~variables.properties.present
               THEN {Outcome(FALSE, "KeyError: properties", <<>>)}
               ELSE LET provided_variables == Keys(variables.properties.items)
                        missing_variables == template_variables \ provided_variables
                    IN IF template_variables \subseteq provided_variables
                       THEN {Outcome(TRUE, "none", <<>>)}
                       ELSE {Outcome(FALSE, "ValueError: undeclared variable(s)", order) :
                                order \in IterationOrders(missing_variables)}

\* v == dict(): no key at all
IsEmptyDict(v) ==
    v.job_configuration.t = "none" /\ v.variables.t = "none" /\ ~v.other_keys

\* a validator without the `if v == dict(): return v`
validate_without_carve_out(v) == CheckTemplateVariables(v)

validate_base_job_template(v) ==
    IF IsEmptyDict(v) THEN {Outcome(TRUE, "none", <<>>)}
    ELSE CheckTemplateVariables(v)

---------------------------------------------------------------------------
(* The templates and schemas the work pool actions are tried on.           *)

ImageRun == <<LB, LB, SP, "i", "m", "a", "g", "e", SP, RB, RB, SP, "r", "u", "n">>
Texts ==
    { ImageRun,                                             \* {{ image }} run
      <<LB, LB, "a", RB, RB, ".", LB, LB, "b", RB, RB>>,    \* {{a}}.{{b}}
      <<"r", "u", "n">>,                                    \* run
      <<LB, LB, SP, "a", NL, RB, RB>>,                      \* {{ a<newline>}}
      <<LB, LB, LB, "b", RB, RB, RB>>,                      \* {{{b}}}
      <<LB, LB, SP, "a", SP, RB>> }                         \* {{ a }

One == Num(<<"1">>)
KeyK == <<"k">>
\* {"{{ b }}": "run"}: a placeholder in the key of a nested map
NestedKey == Map(<< <<<<LB, LB, SP, "b", SP, RB, RB>>, Str(<<"r", "u", "n">>)>> >>)

Templates ==
    {Str(s) : s \in Texts}
    \cup {List(<<Str(s)>>) : s \in Texts}
    \cup {Map(<< <<KeyK, List(<<One, Str(s)>>)>> >>) : s \in Texts}
    \cup {One, NestedKey}

KeyDigits == <<"1", "2", "3", "4", "5", "6", "7", "8", "9">>
\* the i-th top-level key of a job configuration: "cmd", "k2", "k3", ...
TopKey(i) == IF i = 1 THEN <<"c", "m", "d">> ELSE <<"k", KeyDigits[i]>>

JobConfigs ==
    {None}
    \cup {Map([i \in DOMAIN f |-> <<TopKey(i), f[i]>>]) :
            f \in UNION {[1..n -> Templates] : n \in 0..MaxEntries}}
    \* {"{{ a }}": "run"}: a placeholder in a top-level key
    \cup {Map(<< <<<<LB, LB, SP, "a", SP, RB, RB>>, Str(<<"r", "u", "n">>)>> >>)}

AllNames == <<NameA, NameB, NameImage, NameX>>
TemplateNames == {NameA, NameB, NameImage}

\* a properties dict declaring exactly the names of S, in the order of AllNames
PropertiesOf(S, fragment) ==
    LET In(n) == n \in S
        names == SelectSeq(AllNames, In)
    IN [i \in 1..Len(names) |-> <<names[i], fragment>>]

TemplateSchemas ==
    {NoVariables, EmptyDict, Schema("unset", Absent, Present(<<NameA>>))}
    \cup {Schema("object", Present(PropertiesOf(S, Fragment("string", FALSE))), Absent) :
            S \in SUBSET TemplateNames}

BaseJobTemplates ==
    {BaseJobTemplate(jc, vs, FALSE) : jc \in JobConfigs, vs \in TemplateSchemas}
    \cup {BaseJobTemplate(None, NoVariables, TRUE)}

---------------------------------------------------------------------------
(* Deployment payloads: the schedule fields of DeploymentCreate and        *)
(* DeploymentUpdate.  A field of a payload is [given, value]: a key the    *)
(* request may leave out.                                                  *)

Given(value) == [given |-> TRUE, value |-> value]
\* `dummy` stands where no value was sent; nothing reads it
Omitted(dummy) == [given |-> FALSE, value |-> dummy]

ScheduleSpecs == {"interval", "cron"}
NoSchedule == "None"

Payload(schedule, is_schedule_active, schedules) ==
    [schedule |-> schedule, is_schedule_active |-> is_schedule_active,
     schedules |-> schedules]
NoPayload == Payload(NoSchedule, Omitted(FALSE), Omitted(<<>>))

ActionObject(kind, schedule, is_schedule_active, schedules) ==
    [kind |-> kind, schedule |-> schedule,
     is_schedule_active |-> is_schedule_active, schedules |-> schedules]
NoDeployment == ActionObject("none", NoSchedule, FALSE, <<>>)

\* DeploymentScheduleCreate: active defaults to True, schedule is required
DeploymentScheduleCreate(entry) ==
    [active |-> IF entry.active.given THEN entry.active.value ELSE TRUE,
     schedule |-> entry.schedule]

\* the values dict after field validation: is_schedule_active defaults to True,
\* schedules to [], schedule to None
FieldValues(kind, p) ==
    ActionObject(kind, p.schedule,
                 IF p.is_schedule_active.given THEN p.is_schedule_active.value ELSE TRUE,
                 IF p.schedules.given
                 THEN [i \in 1..Len(p.schedules.value) |->
                          DeploymentScheduleCreate(p.schedules.value[i])]
                 ELSE <<>>)

\* prefect._internal.schemas.validators.set_deployment_schedules: with no
\* schedules and a legacy schedule, the legacy schedule becomes the sole entry
set_deployment_schedules(values) ==
    IF values.schedules = <<>> /\ values.schedule # NoSchedule
    THEN [values EXCEPT !.schedules =
             <<[active |-> values.is_schedule_active, schedule |-> values.schedule]>>]
    ELSE values

\* a validator that migrates nothing
populate_nothing(values) == values

\* a validator that adds the legacy schedule on every validation
populate_append(values) ==
    IF values.schedule # NoSchedule
    THEN [values EXCEPT !.schedules =
             Append(@, [active |-> values.is_schedule_active,
                        schedule |-> values.schedule])]
    ELSE values

\* a validator that also stamps is_schedule_active on the entries given
populate_stamp_active(values) ==
    [set_deployment_schedules(values) EXCEPT !.schedules =
        [i \in 1..Len(@) |-> [@[i] EXCEPT !.active = values.is_schedule_active]]]

\* DeploymentCreate.populate_schedules, a root validator run after the fields
populate_schedules(values) == set_deployment_schedules(values)

\* validation of a DeploymentCreate payload
DeploymentCreate(p) == populate_schedules(FieldValues("DeploymentCreate", p))

\* validation of a DeploymentUpdate payload: no root validator but remove_old_fields
DeploymentUpdate(p) == FieldValues("DeploymentUpdate", p)

\* dict(model): every field given
AsPayload(model) ==
    Payload(model.schedule, Given(model.is_schedule_active),
            Given([i \in 1..Len(model.schedules) |->
                      [active |-> Given(model.schedules[i].active),
                       schedule |-> model.schedules[i].schedule]]))

Parse(kind, p) ==
    IF kind = "DeploymentCreate" THEN DeploymentCreate(p) ELSE DeploymentUpdate(p)

OptionalBooleans == {Omitted(FALSE), Given(TRUE), Given(FALSE)}
ScheduleEntries ==
    [active : OptionalBooleans, schedule : ScheduleSpecs]
Payloads ==
    {Payload(schedule, is_schedule_active, schedules) :
        schedule \in {NoSchedule} \cup ScheduleSpecs,
        is_schedule_active \in OptionalBooleans,
        schedules \in {Omitted(<<>>)} \cup
            {Given(list) : list \in UNION {[1..n -> ScheduleEntries] : n \in 0..MaxSchedules}}}

---------------------------------------------------------------------------
(* Requests of DeploymentCreate's parameter validation, of the run actions *)
(* and of StateCreate, and what validation makes of them.                  *)

\* the fields of a DeploymentCreate request that parameter validation reads
CreateRequest(enforce_parameter_schema, parameter_openapi_schema, parameters) ==
    [enforce_parameter_schema |-> enforce_parameter_schema,
     parameter_openapi_schema |-> parameter_openapi_schema,
     parameters |-> parameters]
NoCreateRequest == CreateRequest(Omitted(FALSE), Omitted(NoVariables), Omitted(Map(<<>>)))
CreateResult(state, outcome, parameters) ==
    [state |-> state, outcome |-> outcome, parameters |-> parameters]
CreatePending == CreateResult("pending", "none", None)

\* the name field of a request of a run action
RunRequest(name) == [name |-> name]
NoRunRequest == RunRequest(Omitted(None))
RunResult(state, by, name) == [state |-> state, by |-> by, name |-> name]
RunPending == RunResult("pending", "none", None)

\* no instant: the None of an Optional[DateTimeTZ]
NoInstant == "None"
\* StateDetails: scheduled_time and, for the other fields, cache_key
StateDetails(scheduled_time, cache_key) ==
    [scheduled_time |-> scheduled_time, cache_key |-> cache_key]
StateRequest(type, name, state_details) ==
    [type |-> type, name |-> name, state_details |-> state_details]
NoStateRequest ==
    StateRequest(<<>>, Omitted(None), Omitted(StateDetails(NoInstant, None)))
StateResult(state, outcome, name, state_details, now) ==
    [state |-> state, outcome |-> outcome, name |-> name,
     state_details |-> state_details, now |-> now]
StatePending ==
    StateResult("pending", "none", None, StateDetails(NoInstant, None), NoInstant)

ParametersIdle ==
    /\ create_request = NoCreateRequest
    /\ create_result = CreatePending

RunNamesIdle ==
    /\ run_request = NoRunRequest
    /\ run_result = RunPending

StatesIdle ==
    /\ state_request = NoStateRequest
    /\ state_result = StatePending

ActionsIdle == ParametersIdle /\ RunNamesIdle /\ StatesIdle

---------------------------------------------------------------------------
(* Work pool actions: WorkPoolCreate and WorkPoolUpdate run                *)
(* validate_base_job_template on their base_job_template field.            *)

\* no check_valid_configuration call has ended yet
NoCall ==
    [state |-> "none", kind |-> "none", infra_overrides |-> None,
     variables_schema |-> NoVariables, outcome |-> "none"]

Pending == [state |-> "pending", by |-> "none", outcome |-> Outcome(FALSE, "none", <<>>)]
Done(by, outcome) == [state |-> "done", by |-> by, outcome |-> outcome]

WorkPoolCreate ==
    /\ wp_result.state = "pending"
    /\ \E outcome \in validate_base_job_template(base_job_template) :
          wp_result' = Done("WorkPoolCreate", outcome)
    /\ UNCHANGED <<base_job_template, ovars, svars, avars>>

\* WorkPoolUpdate with a base_job_template dict given
WorkPoolUpdate ==
    /\ wp_result.state = "pending"
    /\ \E outcome \in validate_base_job_template(base_job_template) :
          wp_result' = Done("WorkPoolUpdate", outcome)
    /\ UNCHANGED <<base_job_template, ovars, svars, avars>>

TemplateIdle ==
    /\ base_job_template = BaseJobTemplate(None, NoVariables, FALSE)
    /\ wp_result = Pending

OverridesIdle ==
    /\ original = base_job_template
    /\ calls = EmptyBag
    /\ last_call = NoCall

SchedulesIdle ==
    /\ payload = NoPayload
    /\ deployment = NoDeployment
    /\ previous = NoDeployment
    /\ runs = 0

InitTemplate ==
    /\ base_job_template \in BaseJobTemplates
    /\ wp_result = Pending
    /\ OverridesIdle
    /\ SchedulesIdle
    /\ ActionsIdle

NextTemplate == WorkPoolCreate \/ WorkPoolUpdate

SpecTemplate == InitTemplate /\ [][NextTemplate]_vars

---------------------------------------------------------------------------
(* Properties of the template check.                                       *)

\* the placeholder names of the serialised values of a job configuration
ExtractedNames(job_config) ==
    UNION {{p.name : p \in find_placeholders(JsonDumps(job_config.v[i][2]))} :
              i \in 1..Len(job_config.v)}

DeclaredNames(variables) == Keys(variables.properties.items)

\* the str leaves of a document, at any depth in its lists and maps
RECURSIVE StringLeaves(_)
StringLeaves(d) ==
    CASE d.t = "str" -> {d.v}
      [] d.t = "list" -> UNION {StringLeaves(d.v[i]) : i \in 1..Len(d.v)}
      [] d.t = "map" -> UNION {StringLeaves(d.v[i][2]) : i \in 1..Len(d.v)}
      [] OTHER -> {}

\* the names in ascending order of Python's str comparison
SortedNames(S) ==
    CHOOSE f \in IterationOrders(S) :
        \A i, j \in 1..Cardinality(S) : i < j => StrLess(f[i], f[j])

\* the placeholder names of the str leaves of a job configuration, at any depth
LeafNames(job_config) ==
    IF job_config.t # "map" THEN {}
    ELSE UNION {{p.name : p \in find_placeholders(leaf)} :
                   leaf \in StringLeaves(job_config)}

(* C1: for every base job template with job configuration T and variables  *)
(* schema S, validate_base_job_template succeeds if and only if every      *)
(* placeholder name of T, those of the str leaves nested inside its maps   *)
(* and lists included, is a key of S.properties.                           *)
C1_SucceedsIffDeclared ==
    wp_result.state = "done" =>
        (wp_result.outcome.ok <=>
            LeafNames(base_job_template.job_configuration)
                \subseteq DeclaredNames(base_job_template.variables))

(* C9 as amended: the base job template {}, with no job_configuration and  *)
(* no variables key, is accepted; every other base job template whose      *)
(* variables schema is empty or absent is rejected with the                *)
(* must-contain-both-keys error, whether its job configuration is          *)
(* non-empty, empty or absent.                                             *)
C9_BothAbsentCarveOut ==
    wp_result.state = "done" =>
        /\ IsEmptyDict(base_job_template) =>
              wp_result.outcome = Outcome(TRUE, "none", <<>>)
        /\ (~IsEmptyDict(base_job_template) /\ ~Truthy(base_job_template.variables)) =>
              wp_result.outcome =
                  Outcome(FALSE, "ValueError: must contain both keys", <<>>)

\* {job_configuration: {}, variables: {}} is rejected
C9_Witness ==
    /\ wp_result.state = "done"
    /\ base_job_template.job_configuration = Map(<<>>)
    /\ base_job_template.variables = EmptyDict
    /\ ~wp_result.outcome.ok

(* C9: an empty template with an empty or absent variables schema is       *)
(* accepted, and a non-empty template with an empty or absent variables    *)
(* schema is rejected.                                                     *)
C9_BothEmptyCarveOut ==
    (wp_result.state = "done" /\ ~base_job_template.other_keys) =>
        /\ (~Truthy(base_job_template.job_configuration)
              /\ ~Truthy(base_job_template.variables)) => wp_result.outcome.ok
        /\ (Truthy(base_job_template.job_configuration)
              /\ ~Truthy(base_job_template.variables)) => ~wp_result.outcome.ok

(* C10: the undeclared-variable error carries exactly the names referenced *)
(* and not declared, listed in sorted order.                               *)
C10_MissingNamesSorted ==
    (wp_result.state = "done"
        /\ wp_result.outcome.error = "ValueError: undeclared variable(s)") =>
        wp_result.outcome.missing_variables =
            SortedNames(ExtractedNames(base_job_template.job_configuration)
                          \ DeclaredNames(base_job_template.variables))

\* dict.get(key) of the template is None or an empty dict
MissingOrEmptyConfiguration(v) ==
    v.job_configuration.t = "none" \/ v.job_configuration = Map(<<>>)
MissingOrEmptyVariables(v) ==
    v.variables.t = "none" \/ v.variables = EmptyDict

(* C15: the empty base job template {} is accepted; every non-empty base   *)
(* job template whose job_configuration or variables is missing or empty   *)
(* is rejected with the must-contain-both-keys error, and never with the   *)
(* undeclared-variable error, whatever placeholders it holds.              *)
C15_ShapeCheckedFirst ==
    wp_result.state = "done" =>
        /\ IsEmptyDict(base_job_template) =>
              wp_result.outcome = Outcome(TRUE, "none", <<>>)
        /\ (/\ ~IsEmptyDict(base_job_template)
            /\ \/ MissingOrEmptyConfiguration(base_job_template)
               \/ MissingOrEmptyVariables(base_job_template)) =>
              /\ wp_result.outcome.error = "ValueError: must contain both keys"
              /\ wp_result.outcome.error # "ValueError: undeclared variable(s)"
              /\ ~wp_result.outcome.ok

\* a job configuration full of undeclared placeholders, with `variables` an
\* empty dict: the shape error, not the undeclared-variable error
C15_Witness ==
    /\ wp_result.state = "done"
    /\ base_job_template.variables = EmptyDict
    /\ Truthy(base_job_template.job_configuration)
    /\ ExtractedNames(base_job_template.job_configuration) # {}
    /\ wp_result.outcome.error = "ValueError: must contain both keys"

---------------------------------------------------------------------------
(* check_valid_configuration of DeploymentCreate and DeploymentUpdate.     *)

\* deepcopy(base_job_template.get("variables")): a private object.  A reference
\* is [aliased, value]: aliased when it names the caller's own object.
SharedReference(obj) == [aliased |-> TRUE, value |-> obj]

DeepCopy(obj) == [aliased |-> FALSE, value |-> obj]

\* list.remove(k): the first occurrence goes
RECURSIVE Remove(_, _)
Remove(list, k) ==
    IF list = <<>> THEN <<>>
    ELSE IF Head(list) = k THEN Tail(list)
    ELSE <<Head(list)>> \o Remove(Tail(list), k)

\* the loop `for k, v in properties.items()` over the items left, on `required`
RECURSIVE RelaxLoop(_, _)
RelaxLoop(items, required) ==
    IF items = <<>> THEN required
    ELSE LET k == items[1][1]
             v == items[1][2]
         IN RelaxLoop(Tail(items),
                IF v.has_default /\ k \in Range(required)
                THEN Remove(required, k) ELSE required)

\* a relaxation that never removes a name
RelaxNothing(variables_schema) == variables_schema

\* a relaxation that forgets to look for "default"
RelaxAllProperties(variables_schema) ==
    IF variables_schema.t # "none"
       /\ variables_schema.required.present /\ variables_schema.properties.present
    THEN [variables_schema EXCEPT !.required.items =
             SelectSeq(@, LAMBDA k : k \notin Keys(variables_schema.properties.items))]
    ELSE variables_schema

\* lines 217-222: names with a default leave the copy's `required`
RelaxRequired(variables_schema) ==
    IF variables_schema.t # "none"
       /\ variables_schema.required.present /\ variables_schema.properties.present
    THEN [variables_schema EXCEPT !.required.items =
             RelaxLoop(variables_schema.properties.items, @)]
    ELSE variables_schema

\* the value of a dict under a key it has
Lookup(items, k) == items[CHOOSE i \in 1..Len(items) : items[i][1] = k][2]

\* JSON Schema's `type` for the types of the model
HasType(value, type) ==
    CASE type = "unset" -> TRUE
      [] type = "object" -> value.t = "map"
      [] type = "string" -> value.t = "str"
      [] type = "integer" -> value.t = "num"

\* jsonschema.validate(instance, schema): `type`, `properties` and `required`;
\* `properties` and `required` constrain objects only; `default` asserts nothing
JsonSchemaValidate(instance, schema) ==
    IF /\ HasType(instance, schema.type)
       /\ (instance.t = "map" /\ schema.properties.present) =>
             \A i \in 1..Len(schema.properties.items) :
                 LET k == schema.properties.items[i][1]
                     fragment == schema.properties.items[i][2]
                 IN k \in Keys(instance.v) =>
                       HasType(Lookup(instance.v, k), fragment.type)
       /\ (instance.t = "map" /\ schema.required.present) =>
             \A k \in Range(schema.required.items) : k \in Keys(instance.v)
    THEN "returned"
    ELSE "ValidationError"

Call(kind, pc, ref) ==
    [kind |-> kind, pc |-> pc, aliased |-> ref.aliased, variables_schema |-> ref.value]

\* the object a call's variables_schema names
Deref(call) ==
    IF call.aliased THEN base_job_template.variables ELSE call.variables_schema

Kinds == {"DeploymentCreate", "DeploymentUpdate"}

\* variables_schema = deepcopy(base_job_template.get("variables"))
CopySchema(kind) ==
    /\ BagCardinality(calls) < MaxCalls
    /\ calls' = calls (+) SetToBag({Call(kind, "copied",
                                         DeepCopy(base_job_template.variables))})
    /\ UNCHANGED <<base_job_template, wp_result, original, last_call, svars, avars>>

\* the `if required is not None and properties is not None` block
Relax(call) ==
    /\ BagIn(call, calls)
    /\ call.pc = "copied"
    /\ LET relaxed == RelaxRequired(Deref(call))
       IN /\ calls' = (calls (-) SetToBag({call}))
                        (+) SetToBag({[call EXCEPT !.pc = "relaxed",
                                                   !.variables_schema = relaxed]})
          /\ base_job_template' =
                IF call.aliased
                THEN [base_job_template EXCEPT !.variables = relaxed]
                ELSE base_job_template
    /\ UNCHANGED <<wp_result, original, last_call, svars, avars>>

\* the names the overrides and the deployments' schemas speak of
OverrideNames == <<NameX, NameImage>>
OverrideValues == {Str(<<"s">>), One}

\* the dict giving OverrideNames[i] the value f[i], None for a name left out
OverridesOf(f) ==
    LET idx == SelectSeq([i \in 1..Len(OverrideNames) |-> i], LAMBDA i : f[i] # None)
    IN Map([j \in 1..Len(idx) |-> <<OverrideNames[idx[j]], f[idx[j]]>>])

OverrideMaps ==
    {OverridesOf(f) : f \in [1..Len(OverrideNames) -> {None} \cup OverrideValues]}

\* infra_overrides: Dict[str, Any] of DeploymentCreate, Optional[Dict[str, Any]]
\* (default None) of DeploymentUpdate
InfraOverrides(kind) ==
    OverrideMaps \cup (IF kind = "DeploymentUpdate" THEN {None} ELSE {})

\* jsonschema.validate(self.infra_overrides, variables_schema), which the call
\* makes last; the overrides are read here only
Validate(call) ==
    /\ BagIn(call, calls)
    /\ call.pc = "relaxed"
    /\ \E infra_overrides \in InfraOverrides(call.kind) :
          LET variables_schema == Deref(call)
          IN last_call' =
                [state |-> "done", kind |-> call.kind,
                 infra_overrides |-> infra_overrides,
                 variables_schema |-> variables_schema,
                 outcome |-> IF variables_schema.t = "none" THEN "returned"
                             ELSE JsonSchemaValidate(infra_overrides, variables_schema)]
    /\ calls' = calls (-) SetToBag({call})
    /\ UNCHANGED <<base_job_template, wp_result, original, svars, avars>>

\* {"cmd": "{{ image }} run"}
ImageJobConfig == Map(<< <<TopKey(1), Str(ImageRun)>> >>)

NoFragment == Fragment("absent", FALSE)
OverrideFragments == {NoFragment, Fragment("string", FALSE), Fragment("string", TRUE)}

\* the properties dict giving OverrideNames[i] the fragment g[i]
PropertiesFrom(g) ==
    LET idx == SelectSeq([i \in 1..Len(OverrideNames) |-> i], LAMBDA i : g[i] # NoFragment)
    IN [j \in 1..Len(idx) |-> <<OverrideNames[idx[j]], g[idx[j]]>>]

OverrideSchemas ==
    {Schema(type, properties, required) :
        type \in {"unset", "object"},
        properties \in {Absent} \cup
            {Present(PropertiesFrom(g)) :
                g \in [1..Len(OverrideNames) -> OverrideFragments]},
        required \in {Absent, Present(<<NameX>>), Present(<<NameImage>>),
                      Present(<<NameX, NameImage>>)}}

Pools ==
    {BaseJobTemplate(ImageJobConfig, variables, FALSE) : variables \in OverrideSchemas}
    \cup {BaseJobTemplate(None, NoVariables, FALSE)}

InitOverrides ==
    /\ base_job_template \in Pools
    /\ wp_result = Pending
    /\ OverridesIdle
    /\ SchedulesIdle
    /\ ActionsIdle

NextOverrides ==
    \/ WorkPoolCreate
    \/ \E kind \in Kinds : CopySchema(kind)
    \/ \E call \in BagToSet(calls) : Relax(call)
    \/ \E call \in BagToSet(calls) : Validate(call)

SpecOverrides == InitOverrides /\ [][NextOverrides]_vars

---------------------------------------------------------------------------
(* Properties of the override check.                                       *)

\* the names override validation is to exempt: required, a property, with a default
Exempt(schema) ==
    {k \in Range(schema.required.items) \cap Keys(schema.properties.items) :
        Lookup(schema.properties.items, k).has_default}

\* the overrides fit every `type` the schema states
TypesFit(instance, schema) ==
    /\ HasType(instance, schema.type)
    /\ instance.t = "map" =>
          \A k \in Keys(instance.v) \cap Keys(schema.properties.items) :
              HasType(Lookup(instance.v, k), Lookup(schema.properties.items, k).type)

(* C2: check_valid_configuration never mutates the caller's base job       *)
(* template or its variables schema: whatever calls have begun, are in     *)
(* progress, have returned or have raised, the shared template equals its  *)
(* value before the first call.                                            *)
C2_SchemaNeverMutated == base_job_template = original

\* a call has raised, and two more hold relaxed copies that differ from the schema
C2_Witness ==
    /\ last_call.outcome = "ValidationError"
    /\ BagCardinality(calls) >= 2
    /\ \A call \in BagToSet(calls) :
          /\ call.pc = "relaxed"
          /\ call.variables_schema # base_job_template.variables
    /\ \E c1, c2 \in BagToSet(calls) : c1.kind # c2.kind

(* C3: a name listed in `required` that is a key of `properties` and whose *)
(* fragment has a `default` is not required by override validation: it is  *)
(* out of the `required` list validated against, and overrides that fit    *)
(* the schema's types and give every other required name are accepted.     *)
C3_DefaultNotRequired ==
    (last_call.state = "done" /\ original.variables.t # "none") =>
        LET schema == original.variables
        IN /\ \A k \in Exempt(schema) :
                 k \notin Range(last_call.variables_schema.required.items)
           /\ (/\ TypesFit(last_call.infra_overrides, schema)
               /\ last_call.infra_overrides.t = "map" =>
                     \A k \in Range(schema.required.items) \ Exempt(schema) :
                         k \in Keys(last_call.infra_overrides.v))
                 => last_call.outcome = "returned"

\* {} against {properties: {x: {type: string, default: ...}}, required: [x]}
C3_Witness ==
    /\ last_call.state = "done"
    /\ last_call.infra_overrides = Map(<<>>)
    /\ original.variables.properties =
          Present(<< <<NameX, Fragment("string", TRUE)>> >>)
    /\ original.variables.required = Present(<<NameX>>)
    /\ last_call.outcome = "returned"

(* C4: a required variable without a default is still enforced: the        *)
(* relaxation removes from `required` only names whose fragment has a      *)
(* `default`, overrides that omit any other required name are rejected,    *)
(* and for {cmd: "{{ image }} run"} with {properties: {image: {type:       *)
(* string}}, required: [image]} the template check succeeds while the      *)
(* overrides {} fail.                                                      *)
C4_RequiredWithoutDefaultEnforced ==
    /\ (last_call.state = "done" /\ original.variables.t # "none") =>
          LET schema == original.variables
              validated == last_call.variables_schema
          IN /\ \A k \in Range(schema.required.items) :
                   k \notin Range(validated.required.items) => k \in Exempt(schema)
             /\ (/\ last_call.infra_overrides.t = "map"
                 /\ \E k \in Range(schema.required.items) \ Exempt(schema) :
                       k \notin Keys(last_call.infra_overrides.v))
                   => last_call.outcome = "ValidationError"
    /\ (/\ wp_result.state = "done"
        /\ original.job_configuration = ImageJobConfig
        /\ original.variables.t # "none"
        /\ NameImage \in Keys(original.variables.properties.items))
          => wp_result.outcome.ok

\* the end-to-end scenario: the pool's template passes, the overrides {} fail
C4_Witness ==
    /\ original.job_configuration = ImageJobConfig
    /\ original.variables.properties =
          Present(<< <<NameImage, Fragment("string", FALSE)>> >>)
    /\ original.variables.required = Present(<<NameImage>>)
    /\ wp_result.state = "done" /\ wp_result.outcome.ok
    /\ last_call.state = "done"
    /\ last_call.infra_overrides = Map(<<>>)
    /\ last_call.outcome = "ValidationError"

\* check_valid_configuration run from its first line to its last
check_valid_configuration(infra_overrides, template) ==
    LET variables_schema == RelaxRequired(DeepCopy(template.variables).value)
    IN IF variables_schema.t = "none" THEN "returned"
       ELSE JsonSchemaValidate(infra_overrides, variables_schema)

\* the DeploymentCreate value of an overrides value: the default {} for the
\* None of a DeploymentUpdate that leaves infra_overrides out
AsCreateOverrides(infra_overrides) ==
    IF infra_overrides = None THEN Map(<<>>) ELSE infra_overrides

(* C16: DeploymentUpdate.check_valid_configuration and                     *)
(* DeploymentCreate.check_valid_configuration agree: a call of either      *)
(* validates against the schema with the same names relaxed, and accepts   *)
(* or rejects as DeploymentCreate does on the same overrides, the None of  *)
(* an update standing against the default {} of a create.                  *)
C16_CreateUpdateEquivalent ==
    last_call.state = "done" =>
        /\ last_call.variables_schema = RelaxRequired(original.variables)
        /\ last_call.outcome =
              check_valid_configuration(AsCreateOverrides(last_call.infra_overrides),
                                        original)

---------------------------------------------------------------------------
(* Deployment actions.                                                     *)

\* a DeploymentCreate request is validated
ValidateCreate ==
    /\ runs = 0
    /\ deployment' = DeploymentCreate(payload)
    /\ previous' = deployment
    /\ runs' = 1
    /\ UNCHANGED <<tvars, ovars, payload, avars>>

\* a DeploymentUpdate request is validated
ValidateUpdate ==
    /\ runs = 0
    /\ deployment' = DeploymentUpdate(payload)
    /\ previous' = deployment
    /\ runs' = 1
    /\ UNCHANGED <<tvars, ovars, payload, avars>>

\* the validated object is validated again, as parse_obj(model) does
Revalidate ==
    /\ runs >= 1
    /\ runs < MaxRuns
    /\ deployment' = Parse(deployment.kind, AsPayload(deployment))
    /\ previous' = deployment
    /\ runs' = runs + 1
    /\ UNCHANGED <<tvars, ovars, payload, avars>>

InitSchedules ==
    /\ TemplateIdle
    /\ OverridesIdle
    /\ payload \in Payloads
    /\ deployment = NoDeployment
    /\ previous = NoDeployment
    /\ runs = 0
    /\ ActionsIdle

NextSchedules == ValidateCreate \/ ValidateUpdate \/ Revalidate

SpecSchedules == InitSchedules /\ [][NextSchedules]_vars

---------------------------------------------------------------------------
(* Properties of schedule normalisation.                                   *)

\* the payload's `schedules` as sent: [] when left out
IncomingSchedules == IF payload.schedules.given THEN payload.schedules.value ELSE <<>>

(* C5: on deployment creation, when `schedules` is empty and the legacy    *)
(* `schedule` S is present, the normalised `schedules` is exactly          *)
(* [{active: is_schedule_active, schedule: S}], is_schedule_active being   *)
(* True when left out.                                                     *)
C5_LegacyMigration ==
    (/\ runs >= 1
     /\ deployment.kind = "DeploymentCreate"
     /\ IncomingSchedules = <<>>
     /\ payload.schedule # NoSchedule) =>
        deployment.schedules =
            <<[active |-> IF payload.is_schedule_active.given
                          THEN payload.is_schedule_active.value ELSE TRUE,
               schedule |-> payload.schedule]>>

\* {schedule: S, is_schedule_active: false, schedules: []} gave [{false, S}]
C5_Witness ==
    /\ runs = 1
    /\ deployment.kind = "DeploymentCreate"
    /\ payload.schedules = Given(<<>>)
    /\ payload.schedule \in ScheduleSpecs
    /\ payload.is_schedule_active = Given(FALSE)
    /\ deployment.schedules = <<[active |-> FALSE, schedule |-> payload.schedule]>>

(* C6: schedule normalisation is idempotent: validating an already         *)
(* validated DeploymentCreate again, any number of times, changes nothing. *)
C6_Idempotent ==
    (runs >= 2 /\ deployment.kind = "DeploymentCreate") => deployment = previous

\* a migrated legacy schedule, validated again: still the one entry
C6_Witness ==
    /\ runs >= 2
    /\ deployment.kind = "DeploymentCreate"
    /\ payload.schedule # NoSchedule
    /\ IncomingSchedules = <<>>
    /\ Len(deployment.schedules) = 1
    /\ deployment = previous

(* C7: a non-empty incoming `schedules` is authoritative: the normalised   *)
(* `schedules` has the same entries in the same order with the same active *)
(* flags (True where an entry gave none), whatever `schedule` and          *)
(* `is_schedule_active` are; no entry comes from the legacy schedule.      *)
C7_SchedulesAuthoritative ==
    (/\ runs >= 1
     /\ deployment.kind = "DeploymentCreate"
     /\ IncomingSchedules # <<>>) =>
        /\ Len(deployment.schedules) = Len(IncomingSchedules)
        /\ \A i \in 1..Len(IncomingSchedules) :
              /\ deployment.schedules[i].schedule = IncomingSchedules[i].schedule
              /\ deployment.schedules[i].active =
                    IF IncomingSchedules[i].active.given
                    THEN IncomingSchedules[i].active.value ELSE TRUE

\* two entries kept as sent although the legacy fields say otherwise
C7_Witness ==
    /\ runs >= 1
    /\ deployment.kind = "DeploymentCreate"
    /\ Len(IncomingSchedules) = 2
    /\ payload.schedule = "cron"
    /\ payload.is_schedule_active = Given(FALSE)
    /\ IncomingSchedules[1] = [active |-> Given(TRUE), schedule |-> "interval"]
    /\ IncomingSchedules[2].active = Omitted(FALSE)
    /\ deployment.schedules[1] = [active |-> TRUE, schedule |-> "interval"]

(* C8: after validation of a create or an update payload that carries a    *)
(* legacy `schedule` (and no `schedules`), `schedules` is non-empty and    *)
(* contains that schedule.                                                 *)
C8_LegacyAlwaysMigrated ==
    (/\ runs >= 1
     /\ payload.schedule # NoSchedule
     /\ IncomingSchedules = <<>>) =>
        \E i \in 1..Len(deployment.schedules) :
            deployment.schedules[i].schedule = payload.schedule


---------------------------------------------------------------------------
(* DeploymentCreate: `parameters` against `parameter_openapi_schema`.      *)

\* the values dict when `parameters` is validated: enforce_parameter_schema
\* (default False) and parameter_openapi_schema (default None) come first
CreateValues(request) ==
    [enforce_parameter_schema |->
        IF request.enforce_parameter_schema.given
        THEN request.enforce_parameter_schema.value ELSE FALSE,
     parameter_openapi_schema |->
        IF request.parameter_openapi_schema.given
        THEN request.parameter_openapi_schema.value ELSE NoVariables]

\* validate_parameter_openapi_schema: no schema is turned away
validate_parameter_openapi_schema(value, values) == "returned"

\* a check that takes a missing schema for a violation
validate_parameters_fail_closed(value, values) ==
    IF ~values.enforce_parameter_schema THEN "returned"
    ELSE IF values.parameter_openapi_schema.t = "none" THEN "ValidationError"
    ELSE JsonSchemaValidate(value, values.parameter_openapi_schema)

\* validate_parameters_conform_to_schema: the check is made when the deployment
\* enforces its schema and the schema is there and has properties
validate_parameters_conform_to_schema(value, values) ==
    LET schema == values.parameter_openapi_schema
    IN IF /\ values.enforce_parameter_schema
          /\ schema.t # "none"
          /\ schema.properties.present
       THEN JsonSchemaValidate(value, schema)
       ELSE "returned"

\* the two field validators; neither runs on a field the request leaves out
DeploymentCreateParameters(request) ==
    LET values == CreateValues(request)
        schema_check ==
            IF request.parameter_openapi_schema.given
            THEN validate_parameter_openapi_schema(values.parameter_openapi_schema, values)
            ELSE "returned"
        parameters_check ==
            IF request.parameters.given
            THEN validate_parameters_conform_to_schema(request.parameters.value, values)
            ELSE "returned"
    IN IF schema_check = "returned" /\ parameters_check = "returned"
       THEN CreateResult("done", "accepted",
                IF request.parameters.given THEN request.parameters.value
                ELSE Map(<<>>))
       ELSE CreateResult("done", "ValidationError", None)

ValidateParameters ==
    /\ create_result.state = "pending"
    /\ create_result' = DeploymentCreateParameters(create_request)
    /\ UNCHANGED <<tvars, ovars, svars, create_request, nvars, stvars>>

ParameterSchemas == {schema \in OverrideSchemas : ~schema.required.present}

CreateRequests ==
    {CreateRequest(enforce_parameter_schema, parameter_openapi_schema, parameters) :
        enforce_parameter_schema \in OptionalBooleans,
        parameter_openapi_schema \in
            {Omitted(NoVariables), Given(NoVariables)}
            \cup {Given(schema) : schema \in ParameterSchemas},
        parameters \in {Omitted(Map(<<>>))} \cup {Given(m) : m \in OverrideMaps}}

InitParameters ==
    /\ TemplateIdle
    /\ OverridesIdle
    /\ SchedulesIdle
    /\ RunNamesIdle
    /\ StatesIdle
    /\ create_request \in CreateRequests
    /\ create_result = CreatePending

NextParameters == ValidateParameters

SpecParameters == InitParameters /\ [][NextParameters]_vars

\* the request's parameter schema is null or left out
NoParameterSchema(request) ==
    \/ ~request.parameter_openapi_schema.given
    \/ request.parameter_openapi_schema.value = NoVariables

(* C11: a DeploymentCreate request whose parameter_openapi_schema is null  *)
(* or left out is accepted with the parameters it gave, whatever they hold *)
(* and whether enforce_parameter_schema is set, unset or left out.         *)
C11_FailOpen ==
    (create_result.state = "done" /\ NoParameterSchema(create_request)) =>
        /\ create_result.outcome = "accepted"
        /\ create_request.parameters.given =>
              create_result.parameters = create_request.parameters.value

\* enforcement on, schema null, two parameters given: accepted
C11_Witness ==
    /\ create_result.state = "done"
    /\ create_request.enforce_parameter_schema = Given(TRUE)
    /\ create_request.parameter_openapi_schema = Given(NoVariables)
    /\ create_request.parameters.given
    /\ Len(create_request.parameters.value.v) = Len(OverrideNames)
    /\ create_result.outcome = "accepted"

---------------------------------------------------------------------------
(* Run names: the set_name validator of FlowRunCreate,                     *)
(* DeploymentFlowRunCreate, TaskRunCreate, TaskRunUpdate and FlowRunUpdate.*)

\* the words slugs are made of
Words == {<<"o", "d", "d">>, <<"c", "a", "t">>, <<"e", "l", "k">>}

\* prefect.utilities.names.generate_slug(n_words): the slugs it can return,
\* n_words words joined by dashes
RECURSIVE generate_slug(_)
generate_slug(n_words) ==
    IF n_words <= 1 THEN Words
    ELSE {word \o <<"-">> \o rest : word \in Words, rest \in generate_slug(n_words - 1)}

\* a helper that hands every name back
keep_run_name(name) == {name}

\* get_or_create_run_name: the names a call can return; a null or empty name
\* gets a fresh two-word slug
get_or_create_run_name(name) ==
    IF name = None \/ name = Str(<<>>)
    THEN {Str(slug) : slug \in generate_slug(2)}
    ELSE {name}

\* @validator("name", pre=True) def set_name(cls, name)
set_name(name) == get_or_create_run_name(name)

RunKinds == {"FlowRunCreate", "DeploymentFlowRunCreate", "TaskRunCreate",
             "TaskRunUpdate", "FlowRunUpdate"}

\* a default that is a slug for every action
DefaultNameSlug(kind) == {Str(slug) : slug \in generate_slug(2)}

\* the field's default: Field(None) of FlowRunUpdate, generate_slug(2) elsewhere
DefaultName(kind) ==
    IF kind = "FlowRunUpdate" THEN {None}
    ELSE {Str(slug) : slug \in generate_slug(2)}

\* the pre validator runs on a name the request gives, None included, and not
\* on the default of a name left out
ValidatedNames(kind, name) ==
    IF name.given THEN set_name(name.value) ELSE DefaultName(kind)

\* `name: str` turns None away; `name: Optional[str]` of FlowRunUpdate lets it in
NameField(kind, name) ==
    IF name = None /\ kind # "FlowRunUpdate" THEN "rejected" ELSE "done"

RunAction(kind) ==
    /\ run_result.state = "pending"
    /\ \E name \in ValidatedNames(kind, run_request.name) :
          run_result' = RunResult(NameField(kind, name), kind, name)
    /\ UNCHANGED <<tvars, ovars, svars, pvars, run_request, stvars>>

FlowRunCreate == RunAction("FlowRunCreate")
DeploymentFlowRunCreate == RunAction("DeploymentFlowRunCreate")
TaskRunCreate == RunAction("TaskRunCreate")
TaskRunUpdate == RunAction("TaskRunUpdate")
FlowRunUpdate == RunAction("FlowRunUpdate")

MyRun == <<"m", "y", "-", "r", "u", "n">>
RunNames ==
    {Omitted(None), Given(None), Given(Str(<<>>)), Given(Str(MyRun)),
     Given(Str(<<SP>>)), Given(Str(<<"o", "d", "d">>))}

InitRunNames ==
    /\ TemplateIdle
    /\ OverridesIdle
    /\ SchedulesIdle
    /\ ParametersIdle
    /\ StatesIdle
    /\ run_request \in {RunRequest(name) : name \in RunNames}
    /\ run_result = RunPending

NextRunNames ==
    \/ FlowRunCreate
    \/ DeploymentFlowRunCreate
    \/ TaskRunCreate
    \/ TaskRunUpdate
    \/ FlowRunUpdate

SpecRunNames == InitRunNames /\ [][NextRunNames]_vars

\* a str of two non-empty words of letters with one dash between them
TwoWordSlug(name) ==
    /\ name.t = "str"
    /\ \E i \in 2..(Len(name.v) - 1) :
          /\ name.v[i] = "-"
          /\ \A j \in (1..Len(name.v)) \ {i} : name.v[j] \in Letters

NullOrEmpty(name) == name = None \/ name = Str(<<>>)

(* C12: whichever of the five run actions validates it, a name given as    *)
(* null or as the empty string comes out as a non-empty two-word slug, and *)
(* a non-empty name given comes out unchanged.                             *)
C12_RunNameDefaulting ==
    (run_result.state # "pending" /\ run_request.name.given) =>
        /\ run_result.state = "done"
        /\ IF NullOrEmpty(run_request.name.value)
           THEN TwoWordSlug(run_result.name) /\ run_result.name.v # <<>>
           ELSE run_result.name = run_request.name.value

\* TaskRunCreate with name null gets a slug
C12_Witness ==
    /\ run_result.state = "done"
    /\ run_result.by = "TaskRunCreate"
    /\ run_request.name = Given(None)
    /\ TwoWordSlug(run_result.name)

(* C17: a FlowRunUpdate that leaves name out keeps the name null, while    *)
(* one that gives name as null or empty gets a generated slug; the other   *)
(* four run actions give a request without name a generated slug.          *)
C17_OmittedVersusNull ==
    run_result.state # "pending" =>
        /\ (~run_request.name.given /\ run_result.by = "FlowRunUpdate") =>
              run_result = RunResult("done", "FlowRunUpdate", None)
        /\ (~run_request.name.given /\ run_result.by # "FlowRunUpdate") =>
              run_result.state = "done" /\ TwoWordSlug(run_result.name)
        /\ (/\ run_request.name.given
            /\ NullOrEmpty(run_request.name.value)
            /\ run_result.by = "FlowRunUpdate") =>
              run_result.state = "done" /\ TwoWordSlug(run_result.name)

\* FlowRunUpdate without a name: validated, name still null
C17_Witness ==
    /\ run_result.state = "done"
    /\ run_result.by = "FlowRunUpdate"
    /\ ~run_request.name.given
    /\ run_result.name = None

---------------------------------------------------------------------------
(* StateCreate: the name defaulted from the type, and the scheduled time   *)
(* defaulted to the current instant.                                       *)

UpperCase == <<"A", "B", "C", "D", "E", "F", "G", "H", "I", "J", "K", "L", "M", "N",
              "O", "P", "Q", "R", "S", "T", "U", "V", "W", "X", "Y", "Z">>
LowerCase == <<"a", "b", "c", "d", "e", "f", "g", "h", "i", "j", "k", "l", "m", "n",
              "o", "p", "q", "r", "s", "t", "u", "v", "w", "x", "y", "z">>

ToUpper(c) ==
    IF \E i \in 1..Len(LowerCase) : LowerCase[i] = c
    THEN UpperCase[CHOOSE i \in 1..Len(LowerCase) : LowerCase[i] = c] ELSE c
ToLower(c) ==
    IF \E i \in 1..Len(UpperCase) : UpperCase[i] = c
    THEN LowerCase[CHOOSE i \in 1..Len(UpperCase) : UpperCase[i] = c] ELSE c

\* str.capitalize(): the first character upper-cased, the others lower-cased
Capitalize(word) ==
    [i \in 1..Len(word) |-> IF i = 1 THEN ToUpper(word[i]) ELSE ToLower(word[i])]

\* the values of schemas.states.StateType
SCHEDULED == <<"S", "C", "H", "E", "D", "U", "L", "E", "D">>
PENDING == <<"P", "E", "N", "D", "I", "N", "G">>
RUNNING == <<"R", "U", "N", "N", "I", "N", "G">>
COMPLETED == <<"C", "O", "M", "P", "L", "E", "T", "E", "D">>
FAILED == <<"F", "A", "I", "L", "E", "D">>
CANCELLED == <<"C", "A", "N", "C", "E", "L", "L", "E", "D">>
CRASHED == <<"C", "R", "A", "S", "H", "E", "D">>
PAUSED == <<"P", "A", "U", "S", "E", "D">>
CANCELLING == <<"C", "A", "N", "C", "E", "L", "L", "I", "N", "G">>
StateTypes == {SCHEDULED, PENDING, RUNNING, COMPLETED, FAILED,
               CANCELLED, CRASHED, PAUSED, CANCELLING}
\* a type the enumeration does not have
BOGUS == <<"B", "O", "G", "U", "S">>

\* Optional[str] values: None or a str
Custom == Str(<<"c", "u", "s", "t", "o", "m">>)

\* a helper that names the state by the raw value of its type
state_name_is_type(v, values) ==
    IF v = None /\ values.type # <<>> THEN Str(values.type) ELSE v

\* get_or_create_state_name: without a name, the display name of the type;
\* `type` is not in values when it failed its own validation
get_or_create_state_name(v, values) ==
    IF v = None /\ values.type # <<>> THEN Str(Capitalize(values.type)) ELSE v

\* @validator("name", always=True): runs on the default None as well
default_name_from_type(v, values) == get_or_create_state_name(v, values)

\* a helper that stamps the current instant on every scheduled state
set_scheduled_time_always(values, now) ==
    IF values.type = SCHEDULED
    THEN [values EXCEPT !.state_details.scheduled_time = now]
    ELSE values

\* set_default_scheduled_time: a SCHEDULED state without scheduled_time gets
\* the current instant
set_default_scheduled_time(values, now) ==
    IF values.type = SCHEDULED /\ values.state_details.scheduled_time = NoInstant
    THEN [values EXCEPT !.state_details.scheduled_time = now]
    ELSE values

\* @root_validator, run after the fields
default_scheduled_start_time(values, now) == set_default_scheduled_time(values, now)

\* validation of a StateCreate request when the clock reads `now`
StateCreate(request, now) ==
    LET type_valid == request.type \in StateTypes
        type == IF type_valid THEN request.type ELSE <<>>
        name == default_name_from_type(
                    IF request.name.given THEN request.name.value ELSE None,
                    [type |-> type])
        state_details ==
            IF request.state_details.given THEN request.state_details.value
            ELSE StateDetails(NoInstant, None)
        values == default_scheduled_start_time(
                      [type |-> type, name |-> name, state_details |-> state_details],
                      now)
    IN StateResult("done", IF type_valid THEN "accepted" ELSE "ValidationError",
                   values.name, values.state_details, now)

Instants == {"t1", "t2"}

ValidateState ==
    /\ state_result.state = "pending"
    /\ \E now \in Instants : state_result' = StateCreate(state_request, now)
    /\ UNCHANGED <<tvars, ovars, svars, pvars, nvars, state_request>>

StateRequests ==
    {StateRequest(type, name, state_details) :
        type \in StateTypes \cup {BOGUS},
        name \in {Omitted(None), Given(None), Given(Custom), Given(Str(<<>>))},
        state_details \in
            {Omitted(StateDetails(NoInstant, None))}
            \cup {Given(StateDetails(scheduled_time, cache_key)) :
                    scheduled_time \in {NoInstant} \cup Instants,
                    cache_key \in {None, Str(KeyK)}}}

InitStates ==
    /\ TemplateIdle
    /\ OverridesIdle
    /\ SchedulesIdle
    /\ ParametersIdle
    /\ RunNamesIdle
    /\ state_request \in StateRequests
    /\ state_result = StatePending

NextStates == ValidateState

SpecStates == InitStates /\ [][NextStates]_vars

\* the display name of each state type
DisplayNames ==
    {<<SCHEDULED, <<"S", "c", "h", "e", "d", "u", "l", "e", "d">>>>,
     <<PENDING, <<"P", "e", "n", "d", "i", "n", "g">>>>,
     <<RUNNING, <<"R", "u", "n", "n", "i", "n", "g">>>>,
     <<COMPLETED, <<"C", "o", "m", "p", "l", "e", "t", "e", "d">>>>,
     <<FAILED, <<"F", "a", "i", "l", "e", "d">>>>,
     <<CANCELLED, <<"C", "a", "n", "c", "e", "l", "l", "e", "d">>>>,
     <<CRASHED, <<"C", "r", "a", "s", "h", "e", "d">>>>,
     <<PAUSED, <<"P", "a", "u", "s", "e", "d">>>>,
     <<CANCELLING, <<"C", "a", "n", "c", "e", "l", "l", "i", "n", "g">>>>}
DisplayName(type) == CHOOSE name \in {pair[2] : pair \in DisplayNames} :
                        <<type, name>> \in DisplayNames

(* C13: a StateCreate with a valid type and its name null or left out is   *)
(* named by the display name of its type (COMPLETED gives "Completed");    *)
(* with a name given it keeps that name, for every state type.             *)
C13_StateNameDefaulting ==
    (state_result.state = "done" /\ state_result.outcome = "accepted") =>
        IF ~state_request.name.given \/ state_request.name.value = None
        THEN state_result.name = Str(DisplayName(state_request.type))
        ELSE state_result.name = state_request.name.value

\* COMPLETED with name null comes out as "Completed"
C13_Witness ==
    /\ state_result.state = "done"
    /\ state_result.outcome = "accepted"
    /\ state_request.type = COMPLETED
    /\ state_request.name = Given(None)
    /\ state_result.name = Str(<<"C", "o", "m", "p", "l", "e", "t", "e", "d">>)

\* the state_details a request supplies, the default StateDetails() if none
SuppliedDetails(request) ==
    IF request.state_details.given THEN request.state_details.value
    ELSE StateDetails(NoInstant, None)

(* C14: a SCHEDULED StateCreate whose state_details has no scheduled time  *)
(* gets the current instant as scheduled_time and keeps its other details; *)
(* for any other type, or with a scheduled time given, state_details comes *)
(* out exactly as supplied.                                                *)
C14_ScheduledTimeFillsGap ==
    (state_result.state = "done" /\ state_result.outcome = "accepted") =>
        LET supplied == SuppliedDetails(state_request)
        IN IF state_request.type = SCHEDULED /\ supplied.scheduled_time = NoInstant
           THEN /\ state_result.now \in Instants
                /\ state_result.state_details =
                      [supplied EXCEPT !.scheduled_time = state_result.now]
           ELSE state_result.state_details = supplied

\* a SCHEDULED state with a cache key and no scheduled time: the clock's instant
\* is filled in, the cache key stays
C14_Witness ==
    /\ state_result.state = "done"
    /\ state_result.outcome = "accepted"
    /\ state_request.type = SCHEDULED
    /\ state_request.state_details = Given(StateDetails(NoInstant, Str(KeyK)))
    /\ state_result.state_details = StateDetails(state_result.now, Str(KeyK))
    /\ state_result.now \in Instants


===========================================================================
